---------------------------- MODULE Spec2Model ----------------------------
(***************************************************************************)
(* Model of the movie recommender's interaction store                      *)
(* (src/src/utils/user_interactions.py, UserInteractionTracker) and of the *)
(* hybrid recommender built on it (src/src/models/hybrid_recommender.py,   *)
(* HybridRecommender).                                                     *)
(*                                                                         *)
(* Conventions.  A Python value that may be None is a sequence: <<>> is    *)
(* None and <<v>> is the value v.  A real number is an exact rational      *)
(* <<numerator, denominator>>.  A timestamp is a number of ticks, there    *)
(* being TicksPerSecond ticks in a second, so that int(timestamp) really   *)
(* truncates.  A file name is the sequence of its character codes.  The    *)
(* "datetime" field of a stored event is a rendering of "timestamp" that   *)
(* nothing reads back; it is left out of the event record.                 *)
(***************************************************************************)
EXTENDS Integers, Sequences, FiniteSets, TLC

\* ------------------------------------------------------------------ bounds
MaxUsers == 2
TicksPerSecond == 2
FirstSecond == 9
MaxLimit == 1
MaxEvents == 2
BulkFirstSecond == 101
MaxCount == 1
MaxWriters == 2
MaxRankUsers == 3
MaxTopN == 2
MaxMergeLen == 2
MaxMergeN == 3

\* ------------------------------------------------------- program constants
DefaultLimit == 100
PrefLimit == 1000
SecondsPerHour == 3600
MaxNeighbors == 10

None == <<>>
Some(v) == <<v>>
IsSome(o) == o # <<>>
Val(o) == o[1]

Range(s) == {s[i] : i \in DOMAIN s}

UserNames == <<"u1", "u2", "u3", "u4">>
Users == {UserNames[i] : i \in 1..MaxUsers}

\* ---------------------------------------------------------------- strings
\* str(n) for a non-negative integer, as character codes ('0' is 48).
RECURSIVE Digits(_)
Digits(n) == IF n < 10 THEN <<48 + n>> ELSE Digits(n \div 10) \o <<48 + (n % 10)>>

\* ".json"
DotJson == <<46, 106, 115, 111, 110>>

\* int(timestamp): truncation of a non-negative timestamp to whole seconds.
IntTs(ts) == ts \div TicksPerSecond

\* f"{int(timestamp)}.json"
FileName(ts) == Digits(IntTs(ts)) \o DotJson

\* Python's str.__lt__: code-point lexicographic order, a proper prefix first.
RECURSIVE StrLessFrom(_, _, _)
StrLessFrom(a, b, i) ==
    IF i > Len(b) THEN FALSE
    ELSE IF i > Len(a) THEN TRUE
    ELSE IF a[i] # b[i] THEN a[i] < b[i]
    ELSE StrLessFrom(a, b, i + 1)

StrLess(a, b) == StrLessFrom(a, b, 1)

\* name.endswith('.json')
EndsWithJson(name) ==
    /\ Len(name) >= Len(DotJson)
    /\ SubSeq(name, Len(name) - Len(DotJson) + 1, Len(name)) = DotJson

\* ----------------------------------------------------------------- inputs
\* The timestamps handed to record: two in the same second, one in the next.
Timestamps ==
    { FirstSecond * TicksPerSecond,
      FirstSecond * TicksPerSecond + 1,
      (FirstSecond + 1) * TicksPerSecond }

\* (movie_id, interaction_type, rating, watch_duration) as handed to record.
\* 7 and 0 are ratings outside [1, 5], -60 a negative duration.
EventInputs ==
    { [movie_id |-> Some(1), interaction_type |-> "view",  rating |-> None,    watch_duration |-> None],
      [movie_id |-> Some(2), interaction_type |-> "rate",  rating |-> Some(7), watch_duration |-> None],
      [movie_id |-> Some(0), interaction_type |-> "watch", rating |-> Some(0), watch_duration |-> Some(0 - 60)] }

IoOutcomes == {"ok", "makedirs_fails", "open_fails", "write_fails"}

Limits == (1..MaxLimit) \cup {DefaultLimit}

\* interaction_types: None, or a list of types.
TypeFilters == {None, Some({"view"}), Some({"watch"})}

VARIABLES
    dirs,                   \* os.listdir(storage_path): the user directories, in listing order
    files,                  \* files[u]: os.listdir(user_dir), in listing order, with contents
    user_ids,               \* HybridRecommender._user_ids
    user_movie_matrix,      \* HybridRecommender._user_movie_matrix
    user_similarity_matrix, \* HybridRecommender._user_similarity_matrix
    ret,                    \* the last call: its name, arguments and outcome
    calls,                  \* per writer, the record_interaction call it is in
    movies,                 \* HybridRecommender.movies, the catalog
    content_similarity      \* HybridRecommender.content_similarity

storeVars == <<dirs, files>>
recVars == <<user_ids, user_movie_matrix, user_similarity_matrix>>
catalogVars == <<movies, content_similarity>>
vars == <<dirs, files, user_ids, user_movie_matrix, user_similarity_matrix, ret, calls,
         movies, content_similarity>>

\* ------------------------------------------------------------ the store
\* A file that does not hold a complete JSON document (json.load raises).
NoEvent == [user_id |-> "", movie_id |-> None, interaction_type |-> "",
            timestamp |-> 0, rating |-> None, watch_duration |-> None]

Min(a, b) == IF a < b THEN a ELSE b
Max(a, b) == IF a > b THEN a ELSE b

\* The clamp without its lower bound.
ClampRatingNoFloor(r) == Min(r, 5)

\* max(min(float(rating), 5.0), 1.0)
ClampRating(r) == Max(Min(r, 5), 1)

\* max(0, int(watch_duration)), the duration being an integer number of seconds
ClampDuration(d) == Max(0, d)

\* The dict record_interaction builds (lines 47-59).
Interaction(user_id, in, timestamp) ==
    [user_id |-> user_id,
     movie_id |-> in.movie_id,
     interaction_type |-> in.interaction_type,
     timestamp |-> timestamp,
     rating |-> IF IsSome(in.rating) THEN Some(ClampRating(Val(in.rating))) ELSE None,
     watch_duration |-> IF IsSome(in.watch_duration)
                        THEN Some(ClampDuration(Val(in.watch_duration))) ELSE None]

\* One directory for all users.
SharedDir(user_id) == UserNames[1]

\* os.path.join(self.storage_path, user_id): the directory a user's files go to.
UserDir(user_id) == user_id

DirExists(ds, u) == u \in Range(ds)

HasFile(fs, name) == \E i \in DOMAIN fs : fs[i].name = name

\* The sequence s with x inserted so that it ends up at position p.
InsertAt(s, p, x) == SubSeq(s, 1, p - 1) \o <<x>> \o SubSeq(s, p, Len(s))

\* open(path, 'w') followed by a write: the file then holds `entry`; an existing
\* file keeps its place in the directory listing.
WriteFile(fs, p, entry) ==
    IF HasFile(fs, entry.name)
    THEN [i \in DOMAIN fs |-> IF fs[i].name = entry.name THEN entry ELSE fs[i]]
    ELSE InsertAt(fs, p, entry)

\* os.makedirs(user_dir, exist_ok=True)
MakeDirs(ds, p, d) == IF DirExists(ds, d) THEN ds ELSE InsertAt(ds, p, d)

\* Where a new entry may show up in os.listdir's order, which is arbitrary: ahead
\* of the n entries already there, or after them.
ListingPlaces(n) == {1, n + 1}
DirPlaces(ds, d) == IF DirExists(ds, d) THEN {1} ELSE ListingPlaces(Len(ds))
FilePlaces(fs, name) == IF HasFile(fs, name) THEN {1} ELSE ListingPlaces(Len(fs))

\* One file of a user directory: its name, whether it holds a complete JSON
\* document, and the event it then holds.
EventFile(ev) == [name |-> FileName(ev.timestamp), valid |-> TRUE, data |-> ev]
PartialFile(ts) == [name |-> FileName(ts), valid |-> FALSE, data |-> NoEvent]

EmptyFiles == [u \in Users |-> <<>>]

\* A store in which the first user already recorded DefaultLimit events, one a
\* second from BulkFirstSecond on.
BulkEvent(sec) ==
    [user_id |-> UserNames[1], movie_id |-> Some(1), interaction_type |-> "view",
     timestamp |-> sec * TicksPerSecond, rating |-> None, watch_duration |-> None]
BulkFiles ==
    [u \in Users |->
        IF u = UserNames[1]
        THEN [i \in 1..DefaultLimit |-> EventFile(BulkEvent(BulkFirstSecond + i - 1))]
        ELSE <<>>]

\* ------------------------------------------- UserInteractionTracker.record_interaction
\* The whole call.  io is what the file system does: "makedirs_fails" (os.makedirs
\* raises, outside the try), "open_fails" (open raises), "write_fails" (the file was
\* opened, hence created or truncated, and json.dump or the closing flush raises),
\* "ok".  p and q are the places a new directory and a new file take in the listings.
RecordOutcome(io) ==
    IF io = "makedirs_fails" THEN [raised |-> TRUE, value |-> None]
    ELSE [raised |-> FALSE, value |-> Some(io = "ok")]

RecordInteraction(user_id, in, timestamp, io, p, q) ==
    LET d == UserDir(user_id)
        ev == Interaction(user_id, in, timestamp)
    IN  /\ dirs' = IF io = "makedirs_fails" THEN dirs ELSE MakeDirs(dirs, p, d)
        /\ files' = IF io = "ok"
                    THEN [files EXCEPT ![d] = WriteFile(@, q, EventFile(ev))]
                    ELSE IF io = "write_fails"
                    THEN [files EXCEPT ![d] = WriteFile(@, q, PartialFile(timestamp))]
                    ELSE files
        /\ ret' = [op |-> "record", user_id |-> user_id, in |-> in,
                   timestamp |-> timestamp, io |-> io] @@ RecordOutcome(io)

Record(ins, tss, ios) ==
    /\ \E user_id \in Users, in \in ins, timestamp \in tss, io \in ios :
          \E p \in DirPlaces(dirs, UserDir(user_id)),
             q \in FilePlaces(files[UserDir(user_id)], FileName(timestamp)) :
              RecordInteraction(user_id, in, timestamp, io, p, q)
    /\ UNCHANGED <<recVars, calls, catalogVars>>

\* ------------------------------------------- record_interaction, step by step
\* Writers are threads or worker processes that share the storage directory.
\* Each is idle or inside one call of record_interaction, about to take the step
\* its pc names: "makedirs" (line 63), "open" (line 68), "write" (line 69 and the
\* close of the with block); "done" once the call has returned or raised.
WriterNames == <<"w1", "w2", "w3">>
Writers == {WriterNames[i] : i \in 1..MaxWriters}
Idle == [pc |-> "idle"]
NoCalls == [w \in Writers |-> Idle]

Call(w, user_id, in, timestamp) ==
    /\ calls[w].pc = "idle"
    /\ calls' = [calls EXCEPT ![w] = [pc |-> "makedirs", user_id |-> user_id, in |-> in,
                                      timestamp |-> timestamp, raised |-> FALSE,
                                      value |-> None]]
    /\ UNCHANGED <<storeVars, recVars, ret, catalogVars>>

Returned(call, value) == [call EXCEPT !.pc = "done", !.value = Some(value)]

\* os.makedirs(user_dir, exist_ok=True): creates the directory, or raises.
MakeDirsStep(w) ==
    /\ calls[w].pc = "makedirs"
    /\ \/ /\ \E p \in DirPlaces(dirs, UserDir(calls[w].user_id)) :
                dirs' = MakeDirs(dirs, p, UserDir(calls[w].user_id))
          /\ calls' = [calls EXCEPT ![w].pc = "open"]
       \/ /\ dirs' = dirs
          /\ calls' = [calls EXCEPT ![w].pc = "done", ![w].raised = TRUE]
    /\ UNCHANGED <<files, recVars, ret, catalogVars>>

\* open(interaction_path, 'w'): creates the file or truncates it, or raises and
\* the call returns False.
OpenStep(w) ==
    /\ calls[w].pc = "open"
    /\ LET d == UserDir(calls[w].user_id)
       IN  \/ /\ \E q \in FilePlaces(files[d], FileName(calls[w].timestamp)) :
                    files' = [files EXCEPT ![d] = WriteFile(@, q, PartialFile(calls[w].timestamp))]
              /\ calls' = [calls EXCEPT ![w].pc = "write"]
           \/ /\ files' = files
              /\ calls' = [calls EXCEPT ![w] = Returned(@, FALSE)]
    /\ UNCHANGED <<dirs, recVars, ret, catalogVars>>

\* json.dump and the close of the file: the document is written from the start of
\* the file.  Where another writer has put a document into the same file since
\* this one opened it, what is left is this document, or this document followed
\* by the end of a longer one, which does not parse.  A failing write leaves the
\* file as it is and the call returns False.
WriteStep(w) ==
    /\ calls[w].pc = "write"
    /\ LET d == UserDir(calls[w].user_id)
           ev == Interaction(calls[w].user_id, calls[w].in, calls[w].timestamp)
           overwritten == \E f \in Range(files[d]) :
                              f.name = FileName(calls[w].timestamp) /\ f.valid
       IN  \/ /\ files' = [files EXCEPT ![d] = WriteFile(@, 1, EventFile(ev))]
              /\ calls' = [calls EXCEPT ![w] = Returned(@, TRUE)]
           \/ /\ overwritten
              /\ files' = [files EXCEPT ![d] = WriteFile(@, 1, PartialFile(calls[w].timestamp))]
              /\ calls' = [calls EXCEPT ![w] = Returned(@, TRUE)]
           \/ /\ files' = files
              /\ calls' = [calls EXCEPT ![w] = Returned(@, FALSE)]
    /\ UNCHANGED <<dirs, recVars, ret, catalogVars>>

\* ------------------------------------------- UserInteractionTracker.get_user_interactions
\* sorted(paths, reverse=True): the file with the greatest name first (no two
\* files of a directory have the same name).
SortedReverse(s) == SortSeq(s, LAMBDA f, g : StrLess(g.name, f.name))

\* s[:limit] for limit >= 0
Take(s, limit) == SubSeq(s, 1, Min(limit, Len(s)))

\* [f for f in os.listdir(user_dir) if f.endswith('.json')]
JsonFiles(fs) == SelectSeq(fs, LAMBDA f : EndsWithJson(f.name))

\* The loop of lines 97-108 over the files fs: an unreadable file is skipped, and
\* so is an event of another type when interaction_types is a non-empty list.
KeepInteraction(f, types) ==
    /\ f.valid
    /\ ~ (/\ IsSome(types)
          /\ Val(types) # {}
          /\ f.data.interaction_type \notin Val(types))

ReadInteractions(fs, types) ==
    LET kept == SelectSeq(fs, LAMBDA f : KeepInteraction(f, types))
    IN  [i \in DOMAIN kept |-> kept[i].data]

GetUserInteractions(ds, fls, user_id, limit, types) ==
    IF ~ DirExists(ds, UserDir(user_id)) THEN <<>>
    ELSE ReadInteractions(Take(SortedReverse(JsonFiles(fls[UserDir(user_id)])), limit), types)

List(limits, filters) ==
    /\ \E user_id \in Users, limit \in limits, types \in filters :
          ret' = [op |-> "list", user_id |-> user_id, limit |-> limit, types |-> types,
                  value |-> GetUserInteractions(dirs, files, user_id, limit, types)]
    /\ UNCHANGED <<storeVars, recVars, calls, catalogVars>>

\* ---------------------------------------------------------------- numbers
\* Exact rationals <<n, d>>, d > 0, in lowest terms, for the floats of the code.
RECURSIVE Gcd(_, _)
Gcd(a, b) == IF b = 0 THEN a ELSE Gcd(b, a % b)
Abs(n) == IF n < 0 THEN 0 - n ELSE n

Rat(n, d) ==
    LET g == Gcd(Abs(n), Abs(d))
        sgn == IF d < 0 THEN 0 - 1 ELSE 1
    IN  <<(sgn * n) \div g, (sgn * d) \div g>>
Whole(n) == <<n, 1>>
RAdd(a, b) == Rat(a[1] * b[2] + b[1] * a[2], a[2] * b[2])
RMul(a, b) == Rat(a[1] * b[1], a[2] * b[2])
RDiv(a, b) == Rat(a[1] * b[2], a[2] * b[1])
RLess(a, b) == a[1] * b[2] < b[1] * a[2]
RMin(a, b) == IF RLess(b, a) THEN b ELSE a

\* ------------------------------------------------- the preference aggregator
\* weights.get(interaction_type, 1.0)
Weight(interaction_type) ==
    CASE interaction_type = "view" -> Whole(1)
      [] interaction_type = "click" -> Whole(2)
      [] interaction_type = "rate" -> Whole(5)
      [] interaction_type = "watch" -> Whole(3)
      [] interaction_type = "recommend" -> Rat(1, 2)
      [] OTHER -> Whole(1)

\* The score of one event (tracker lines 143-154, recommender lines 130-141).
RatingFactor(e) ==
    IF IsSome(e.rating) THEN RDiv(Whole(Val(e.rating)), Rat(5, 2)) ELSE Whole(1)
DurationFactor(e) ==
    IF IsSome(e.watch_duration)
    THEN RAdd(Whole(1), RDiv(RMin(Rat(Val(e.watch_duration), SecondsPerHour), Whole(2)), Whole(2)))
    ELSE Whole(1)
InteractionScore(e) == RMul(RMul(Weight(e.interaction_type), RatingFactor(e)), DurationFactor(e))

\* `if not movie_id: continue`: None is falsy, and so is 0.
Falsy(movie_id) == movie_id = None \/ Val(movie_id) = 0

\* A dict is the sequence of its items, in insertion order.
DictHas(d, k) == \E i \in DOMAIN d : d[i].key = k
DictGet(d, k) == d[CHOOSE i \in DOMAIN d : d[i].key = k].value
DictKeys(d) == {d[i].key : i \in DOMAIN d}
DictPut(d, k, v) ==
    IF DictHas(d, k)
    THEN [i \in DOMAIN d |-> IF d[i].key = k THEN [key |-> k, value |-> v] ELSE d[i]]
    ELSE Append(d, [key |-> k, value |-> v])

\* One turn of the loop: preferences after the event e.
FoldInteraction(preferences, e) ==
    IF Falsy(e.movie_id) THEN preferences
    ELSE LET movie_id == Val(e.movie_id)
             score == InteractionScore(e)
         IN  IF DictHas(preferences, movie_id)
             THEN DictPut(preferences, movie_id,
                          RDiv(RAdd(DictGet(preferences, movie_id), score), Whole(2)))
             ELSE DictPut(preferences, movie_id, score)

RECURSIVE FoldInteractions(_, _)
FoldInteractions(preferences, interactions) ==
    IF interactions = <<>> THEN preferences
    ELSE FoldInteractions(FoldInteraction(preferences, Head(interactions)), Tail(interactions))

\* UserInteractionTracker.get_user_movie_preferences, from the listed interactions on.
MoviePreferences(interactions) == FoldInteractions(<<>>, interactions)

\* UserInteractionTracker.get_user_movie_preferences
GetUserMoviePreferences(ds, fls, user_id) ==
    MoviePreferences(GetUserInteractions(ds, fls, user_id, PrefLimit, None))

\* HybridRecommender._get_user_preferences: the files in listing order, each read
\* inside its own try, an unreadable one skipped.
GetUserPreferences(ds, fls, user_id) ==
    IF ~ DirExists(ds, UserDir(user_id)) THEN <<>>
    ELSE FoldInteractions(<<>>, ReadInteractions(JsonFiles(fls[UserDir(user_id)]), None))

\* ------------------------------------------------ the user-similarity index
\* Sum of f[x] over the finite set S (f[x] rational).
RECURSIVE RSum(_, _)
RSum(f, S) ==
    IF S = {} THEN Whole(0)
    ELSE LET x == CHOOSE y \in S : TRUE IN RAdd(f[x], RSum(f, S \ {x}))

Dot(a, b) == RSum([m \in DOMAIN a |-> RMul(a[m], b[m])], DOMAIN a)

\* Reals that are sums of square roots: the function x stands for the sum of
\* x[r] * sqrt(r) over its domain, each r a squarefree positive integer and each
\* x[r] a rational other than 0.  Two such sums are equal exactly when the
\* functions are; r = 1 carries the rational part.
Zero == [r \in {} |-> Whole(0)]
Term(c, r) == IF c = Whole(0) THEN Zero ELSE [x \in {r} |-> c]
Coef(x, r) == IF r \in DOMAIN x THEN x[r] ELSE Whole(0)
RealAdd(x, y) ==
    LET sum == [r \in DOMAIN x \cup DOMAIN y |-> RAdd(Coef(x, r), Coef(y, r))]
    IN  [r \in {q \in DOMAIN sum : sum[q] # Whole(0)} |-> sum[r]]
Scale(q, x) == IF q = Whole(0) THEN Zero ELSE [r \in DOMAIN x |-> RMul(q, x[r])]
RealSub(x, y) == RealAdd(x, Scale(Whole(0 - 1), y))

\* c1 * sqrt(r1) times c2 * sqrt(r2), r1 and r2 squarefree.
TermProduct(c1, r1, c2, r2) ==
    LET g == Gcd(r1, r2)
    IN  Term(RMul(RMul(c1, c2), Whole(g)), (r1 \div g) * (r2 \div g))

RECURSIVE SumTerms(_, _)
SumTerms(x, pairs) ==
    IF pairs = {} THEN Zero
    ELSE LET p == CHOOSE q \in pairs : TRUE
         IN  RealAdd(TermProduct(x[p[1]], p[1], x[p[2]], p[2]), SumTerms(x, pairs \ {p}))
Square(x) == SumTerms(x, (DOMAIN x) \X (DOMAIN x))

\* The sign of x: -1, 0 or 1.  The positive terms are weighed against the negative
\* ones by comparing the squares of the two sums, which again are such sums.
RECURSIVE Sign(_)
Sign(x) ==
    LET pos == [r \in {q \in DOMAIN x : RLess(Whole(0), x[q])} |-> x[r]]
        neg == [r \in {q \in DOMAIN x : RLess(x[q], Whole(0))} |-> x[r]]
    IN  IF DOMAIN x = {} THEN 0
        ELSE IF DOMAIN neg = {} THEN 1
        ELSE IF DOMAIN pos = {} THEN 0 - 1
        ELSE Sign(RealSub(Square(pos), Square(neg)))
RealLess(x, y) == Sign(RealSub(y, x)) = 1

\* The greatest k with k * k dividing n, n > 0.
SquareFactor(n) ==
    LET S == {k \in 1..n : k <= n \div k /\ n % (k * k) = 0}
    IN  CHOOSE k \in S : \A j \in S : j <= k

\* sqrt(q) = c * sqrt(r) for a rational q > 0 in lowest terms, r squarefree.
Sqrt(q) ==
    LET k1 == SquareFactor(q[1])
        k2 == SquareFactor(q[2])
        r1 == q[1] \div (k1 * k1)
        r2 == q[2] \div (k2 * k2)
    IN  [c |-> Rat(k1, k2 * r2), r |-> r1 * r2]

\* One cell of sklearn's cosine_similarity: each row is divided by its norm (a
\* zero row is left as it is) and the rows are then multiplied, so the cell is
\* dot(a, b) / (norm(a) * norm(b)), and 0 when a row is zero.
Cosine(a, b) ==
    IF Dot(a, a) = Whole(0) \/ Dot(b, b) = Whole(0) THEN Zero
    ELSE LET na == Sqrt(Dot(a, a))
             nb == Sqrt(Dot(b, b))
             g == Gcd(na.r, nb.r)
             r == (na.r \div g) * (nb.r \div g)
             c == RMul(RMul(na.c, nb.c), Whole(g))
         IN  Term(RDiv(Dot(a, b), RMul(c, Whole(r))), r)

\* pd.DataFrame(user_movie_data).T.fillna(0): one row per key of the dict, in the
\* order of user_ids, one column per movie of some inner dict, 0 where a user has
\* no score.  The order of the columns plays no part in what follows.
UserMovieMatrix(ids, data) ==
    LET columns == UNION {DictKeys(data[u]) : u \in Range(ids)}
    IN  [index |-> ids,
         columns |-> columns,
         row |-> [u \in Range(ids) |->
                    [m \in columns |-> IF DictHas(data[u], m) THEN DictGet(data[u], m)
                                       ELSE Whole(0)]]]

\* DataFrame.empty: an axis of length 0.
IsEmptyFrame(matrix) == matrix.index = <<>> \/ matrix.columns = {}

\* HybridRecommender._calculate_user_similarity: the new _user_similarity_matrix.
CalculateUserSimilarity(matrix, similarity) ==
    IF matrix = None \/ IsEmptyFrame(Val(matrix)) THEN similarity
    ELSE LET m == Val(matrix)
         IN  Some([index |-> m.index,
                   cell |-> [u \in Range(m.index) |->
                               [v \in Range(m.index) |-> Cosine(m.row[u], m.row[v])]]])

\* The test with one user letting the similarity be computed too.
SeveralUsersOrOne(ids) == Len(ids) > 0

\* len(self._user_ids) > 1
SeveralUsers(ids) == Len(ids) > 1

\* A rebuild that adds the listed users to those it already knows.
InitializeUserMatricesAppending ==
    IF dirs = <<>> THEN UNCHANGED recVars
    ELSE /\ user_ids' = user_ids \o dirs
         /\ user_movie_matrix' =
                Some(UserMovieMatrix(dirs, [u \in Range(dirs) |-> GetUserPreferences(dirs, files, u)]))
         /\ user_similarity_matrix' =
                IF SeveralUsers(user_ids')
                THEN CalculateUserSimilarity(user_movie_matrix', user_similarity_matrix)
                ELSE user_similarity_matrix

\* HybridRecommender._initialize_user_matrices.  storage_path exists from the
\* construction of the tracker on; without a user directory the call returns
\* early and leaves the three fields as they are.
InitializeUserMatrices ==
    IF dirs = <<>> THEN UNCHANGED recVars
    ELSE /\ user_ids' = dirs
         /\ user_movie_matrix' =
                Some(UserMovieMatrix(dirs, [u \in Range(dirs) |-> GetUserPreferences(dirs, files, u)]))
         /\ user_similarity_matrix' =
                IF SeveralUsers(user_ids')
                THEN CalculateUserSimilarity(user_movie_matrix', user_similarity_matrix)
                ELSE user_similarity_matrix

\* HybridRecommender.update_model; `again` records that the call before it was an
\* update_model too.
UpdateModel ==
    /\ InitializeUserMatrices
    /\ ret' = [op |-> "update_model", again |-> ret.op = "update_model"]
    /\ UNCHANGED <<storeVars, calls, catalogVars>>

\* ------------------------------------------------------------ the rankers
\* What the constructor loads into self.movies and self.content_similarity: the
\* rows of the catalog with their index label, and the square matrix of content
\* similarities, addressed by position from 0.  This is the catalog of the
\* specifications that do not choose another one.
Movies ==
    << [index |-> 0, movie_id |-> 1, title |-> "Alpha"],
       [index |-> 1, movie_id |-> 2, title |-> "Bravo"],
       [index |-> 2, movie_id |-> 3, title |-> "Charlie"] >>
ContentSimilarity ==
    << <<Whole(1), Rat(1, 2), Rat(1, 2)>>,
       <<Rat(1, 2), Whole(1), Rat(1, 4)>>,
       <<Rat(1, 2), Rat(1, 4), Whole(1)>> >>
\* Both sides weighed alike.
EqualWeight == Rat(1, 2)

ContentWeight == Rat(7, 10)
CollaborativeWeight == Rat(3, 10)

\* sorted(items, key=score, reverse=True): greatest score first, items of equal
\* score in the order they had (the sort is stable).
InsertByScore(front, x) ==
    LET smaller == {i \in DOMAIN front : RealLess(front[i].score, x.score)}
    IN  IF smaller = {} THEN Append(front, x)
        ELSE InsertAt(front, CHOOSE i \in smaller : \A j \in smaller : i <= j, x)

RECURSIVE SortedByScore(_)
SortedByScore(items) ==
    IF items = <<>> THEN <<>>
    ELSE InsertByScore(SortedByScore(SubSeq(items, 1, Len(items) - 1)), items[Len(items)])

\* The dict one recommendation is returned as; the poster URL ends in the id.
Recommendation(movie_id, title, score) ==
    [id |-> movie_id, title |-> title, poster_url |-> Digits(movie_id) \o <<46, 106, 112, 103>>,
     similarity_score |-> score]

\* HybridRecommender._get_content_based_recommendations.  An index out of the
\* bounds of the matrix or of the catalog raises, and the except returns [].
\* Every row of the catalog, whatever the title.
AnyTitle(movie_title) == DOMAIN movies

\* self.movies[self.movies['title'] == movie_title]: the positions of the rows
\* with that title.
TitleMatches(movie_title) == {i \in DOMAIN movies : movies[i].title = movie_title}

GetContentBasedRecommendations(movie_title, n) ==
    LET matches == TitleMatches(movie_title)
    IN  IF matches = {} THEN <<>>
        ELSE LET index == movies[CHOOSE i \in matches : \A j \in matches : i <= j].index
             IN  IF index + 1 \notin DOMAIN content_similarity THEN <<>>
                 ELSE LET row == content_similarity[index + 1]
                          distances == SortedByScore([i \in DOMAIN row |->
                                           [pos |-> i - 1, score |-> Term(row[i], 1)]])
                          kept == SubSeq(distances, 2, Min(n + 1, Len(distances)))
                      IN  IF \E k \in DOMAIN kept : kept[k].pos + 1 \notin DOMAIN movies
                          THEN <<>>
                          ELSE [k \in DOMAIN kept |->
                                  Recommendation(movies[kept[k].pos + 1].movie_id,
                                                 movies[kept[k].pos + 1].title,
                                                 kept[k].score)]

\* Series.sort_values(ascending=False) on the column of user_id: the users of the
\* index by falling similarity.  The sort is not stable, so users of equal
\* similarity come in any order: every such order is one of the set.
SortValues(similarity, user_id) ==
    LET ids == Range(similarity.index)
        n == Len(similarity.index)
    IN  {o \in [1..n -> ids] :
            /\ \A i, j \in 1..n : i # j => o[i] # o[j]
            /\ \A i, j \in 1..n :
                  i < j => ~RealLess(similarity.cell[o[i]][user_id],
                                     similarity.cell[o[j]][user_id])}

\* The loop over the preferences of one similar user (lines 228-238).
RECURSIVE AddWeighted(_, _, _, _)
AddWeighted(recommendations, prefs, similarity, user_movies) ==
    IF prefs = <<>> THEN recommendations
    ELSE LET movie_id == Head(prefs).key
             weighted_score == Scale(Head(prefs).value, similarity)
             next == IF movie_id \in user_movies THEN recommendations
                     ELSE IF DictHas(recommendations, movie_id)
                     THEN DictPut(recommendations, movie_id,
                                  RealAdd(DictGet(recommendations, movie_id), weighted_score))
                     ELSE DictPut(recommendations, movie_id, weighted_score)
         IN  AddWeighted(next, Tail(prefs), similarity, user_movies)

\* The loop over the similar users (lines 225-238).
RECURSIVE CollectRecommendations(_, _, _, _, _, _, _)
CollectRecommendations(recommendations, similar_users, similarity, user_id, user_movies, ds, fls) ==
    IF similar_users = <<>> THEN recommendations
    ELSE LET sim_user == Head(similar_users)
         IN  CollectRecommendations(
                 AddWeighted(recommendations, GetUserPreferences(ds, fls, sim_user),
                             similarity.cell[sim_user][user_id], user_movies),
                 Tail(similar_users), similarity, user_id, user_movies, ds, fls)

\* Lines 243-258: the recommendations whose movie the catalog has, in order.
FormatRecommendations(sorted) ==
    LET found == SelectSeq(sorted, LAMBDA x : \E i \in DOMAIN movies : movies[i].movie_id = x.key)
    IN  [k \in DOMAIN found |->
            LET first == CHOOSE i \in DOMAIN movies :
                            /\ movies[i].movie_id = found[k].key
                            /\ \A j \in DOMAIN movies : movies[j].movie_id = found[k].key => i <= j
            IN  Recommendation(found[k].key, movies[first].title, found[k].score)]

\* The users sort_values may put first to last for the call, <<>> when the call
\* does not get to the sort.
SimilarUserOrders(ids, similarity, user_id) ==
    IF user_id \notin Range(ids) \/ similarity = None THEN {<<>>}
    ELSE IF user_id \notin Range(Val(similarity).index) THEN {<<>>}
    ELSE SortValues(Val(similarity), user_id)

\* No movie at all.
NoUserMovies(user_prefs) == {}

\* set(user_prefs.keys())
UserMovies(user_prefs) == DictKeys(user_prefs)

\* HybridRecommender._get_collaborative_recommendations, `order` being the outcome
\* of sort_values.  A user_id that is no column of the matrix raises KeyError, and
\* the except returns [].
GetCollaborativeRecommendations(ds, fls, ids, similarity, user_id, n, order) ==
    IF user_id \notin Range(ids) \/ similarity = None THEN <<>>
    ELSE IF user_id \notin Range(Val(similarity).index) THEN <<>>
    ELSE LET similar_users == SubSeq(order, 2, Min(MaxNeighbors + 1, Len(order)))
             user_movies == UserMovies(GetUserPreferences(ds, fls, user_id))
             recommendations ==
                 CollectRecommendations(<<>>, similar_users, Val(similarity), user_id,
                                        user_movies, ds, fls)
             sorted == Take(SortedByScore([i \in DOMAIN recommendations |->
                                 [key |-> recommendations[i].key,
                                  score |-> recommendations[i].value]]), n)
         IN  FormatRecommendations(sorted)

\* A call of _get_content_based_recommendations.  The whole body of the method is
\* inside its try, whose except returns []: the call never raises.
ContentRecommendations(titles, ns) ==
    /\ \E movie_title \in titles, n \in ns :
          ret' = [op |-> "content", movie_title |-> movie_title, n |-> n, raised |-> FALSE,
                  value |-> GetContentBasedRecommendations(movie_title, n)]
    /\ UNCHANGED <<storeVars, recVars, calls, catalogVars>>

\* A call of _get_collaborative_recommendations on the index as it is.  The test of
\* line 214 raises nothing and the rest is inside the try: the call never raises.
CollaborativeRecommendations(users, ns) ==
    /\ \E user_id \in users, n \in ns :
          \E order \in SimilarUserOrders(user_ids, user_similarity_matrix, user_id) :
              ret' = [op |-> "collaborative", user_id |-> user_id, n |-> n, order |-> order,
                      raised |-> FALSE,
                      value |-> GetCollaborativeRecommendations(dirs, files, user_ids,
                                    user_similarity_matrix, user_id, n, order)]
    /\ UNCHANGED <<storeVars, recVars, calls, catalogVars>>

\* ------------------------------------------- HybridRecommender.get_recommendations
\* bool(x) of an optional string argument.
Truthy(arg) == IsSome(arg) /\ Val(arg) # ""

RecommendedIds(recs) == {recs[i].id : i \in DOMAIN recs}

\* {rec['id']: rec for rec in recs}[movie_id]: the last of them wins.
RecommendationOf(recs, movie_id) ==
    recs[CHOOSE i \in DOMAIN recs :
            /\ recs[i].id = movie_id
            /\ \A j \in DOMAIN recs : recs[j].id = movie_id => j <= i]

ScoreIn(recs, movie_id) ==
    IF movie_id \in RecommendedIds(recs) THEN RecommendationOf(recs, movie_id).similarity_score
    ELSE Zero

\* The orders in which a set may be iterated.
SetOrders(S) ==
    {o \in [1..Cardinality(S) -> S] : \A i, j \in 1..Cardinality(S) : i # j => o[i] # o[j]}

\* The orders in which all_movie_ids may be iterated, <<>> when the call returns
\* before it builds the set.
HybridOrders(content_recs, collab_recs) ==
    IF content_recs = <<>> \/ collab_recs = <<>> THEN {<<>>}
    ELSE SetOrders(RecommendedIds(content_recs) \cup RecommendedIds(collab_recs))

\* The weighing of lines 300-332 whether or not a side is empty.
Blend(content_recs, collab_recs, n, ids) ==
    LET hybrid_scores ==
            [i \in DOMAIN ids |->
                [key |-> ids[i],
                 score |-> RealAdd(Scale(ContentWeight, ScoreIn(content_recs, ids[i])),
                                   Scale(CollaborativeWeight, ScoreIn(collab_recs, ids[i])))]]
        top_movies == Take(SortedByScore(hybrid_scores), n)
    IN  [k \in DOMAIN top_movies |->
            LET movie_data == IF top_movies[k].key \in RecommendedIds(content_recs)
                              THEN RecommendationOf(content_recs, top_movies[k].key)
                              ELSE RecommendationOf(collab_recs, top_movies[k].key)
            IN  [movie_data EXCEPT !.similarity_score = top_movies[k].score]]

\* Lines 292-332, all_movie_ids being iterated in the order `ids`.
Combine(content_recs, collab_recs, n, ids) ==
    IF content_recs = <<>> THEN Take(collab_recs, n)
    ELSE IF collab_recs = <<>> THEN Take(content_recs, n)
    ELSE LET hybrid_scores ==
                 [i \in DOMAIN ids |->
                     [key |-> ids[i],
                      score |-> RealAdd(Scale(ContentWeight, ScoreIn(content_recs, ids[i])),
                                        Scale(CollaborativeWeight, ScoreIn(collab_recs, ids[i])))]]
             top_movies == Take(SortedByScore(hybrid_scores), n)
         IN  [k \in DOMAIN top_movies |->
                 LET movie_data == IF top_movies[k].key \in RecommendedIds(content_recs)
                                   THEN RecommendationOf(content_recs, top_movies[k].key)
                                   ELSE RecommendationOf(collab_recs, top_movies[k].key)
                 IN  [movie_data EXCEPT !.similarity_score = top_movies[k].score]]

GetRecommendations(titles, users, ns) ==
    /\ InitializeUserMatrices
    /\ UNCHANGED <<storeVars, calls, catalogVars>>
    /\ \E movie_title \in titles, user_id \in users, n \in ns :
        LET content_recs == IF Truthy(movie_title)
                            THEN GetContentBasedRecommendations(Val(movie_title), n * 2)
                            ELSE <<>>
            asked == Truthy(user_id) /\ Val(user_id) \in Range(user_ids')
        IN  \E order \in (IF asked
                          THEN SimilarUserOrders(user_ids', user_similarity_matrix', Val(user_id))
                          ELSE {<<>>}) :
                LET collab_recs ==
                        IF asked
                        THEN GetCollaborativeRecommendations(dirs, files, user_ids',
                                 user_similarity_matrix', Val(user_id), n * 2, order)
                        ELSE <<>>
                IN  \E ids \in HybridOrders(content_recs, collab_recs) :
                        ret' = [op |-> "get_recommendations", movie_title |-> movie_title,
                                user_id |-> user_id, n |-> n, raised |-> FALSE,
                                value |-> Combine(content_recs, collab_recs, n, ids)]

\* get_recommendations when a listing of the rebuild raises: os.listdir of the
\* storage directory (lines 61-62), before anything is assigned, or os.listdir of
\* the directory of a user (lines 102-103), which is outside the try of the loop
\* over the files, after _user_ids was assigned (line 68).  Neither
\* _initialize_user_matrices nor get_recommendations catches it.
GetRecommendationsListingFails(titles, users, ns) ==
    /\ \E movie_title \in titles, user_id \in users, n \in ns :
          ret' = [op |-> "get_recommendations", movie_title |-> movie_title,
                  user_id |-> user_id, n |-> n, raised |-> TRUE, value |-> None]
    /\ \E failing \in {None} \cup {Some(d) : d \in Range(dirs)} :
          user_ids' = IF failing = None THEN user_ids ELSE dirs
    /\ UNCHANGED <<user_movie_matrix, user_similarity_matrix, storeVars, calls, catalogVars>>

\* ------------------------------------------------- requests served by threads
\* gunicorn_config.py gives each worker process several threads, and the threads
\* of a worker serve their requests on the one HybridRecommender of the module
\* (api_server.py lines 52-58), which takes no lock.  A thread is idle or inside
\* one call of get_recommendations or update_model, about to take the step its pc
\* names: "assign" (line 68), "build" (lines 72-81), "similarity" (lines 84-85 with
\* _calculate_user_similarity), "return" (the ranking of lines 284-332, or the
\* return of update_model).  `alone` tells that no other thread has taken a step
\* of a call since this call began.
Others(cs, w) ==
    [v \in DOMAIN cs |-> IF v # w /\ cs[v].pc # "idle" THEN [cs[v] EXCEPT !.alone = FALSE]
                         ELSE cs[v]]

\* The call begins and lists the user directories (lines 57-66); without a user
\* directory the rebuild returns at once.
Request(w, op, movie_title, user_id, n) ==
    /\ calls[w].pc = "idle"
    /\ calls' = [Others(calls, w) EXCEPT ![w] =
                    [pc |-> IF dirs = <<>> THEN "return" ELSE "assign", op |-> op,
                     movie_title |-> movie_title, user_id |-> user_id, n |-> n,
                     user_dirs |-> dirs, alone |-> TRUE]]
    /\ UNCHANGED <<storeVars, recVars, ret, catalogVars>>

\* self._user_ids = user_dirs
AssignStep(w) ==
    /\ calls[w].pc = "assign"
    /\ user_ids' = calls[w].user_dirs
    /\ calls' = [Others(calls, w) EXCEPT ![w].pc = "build"]
    /\ UNCHANGED <<user_movie_matrix, user_similarity_matrix, storeVars, ret, catalogVars>>

\* The loop over self._user_ids, as the field is now, and the assignment of
\* self._user_movie_matrix.
BuildStep(w) ==
    /\ calls[w].pc = "build"
    /\ user_movie_matrix' =
           Some(UserMovieMatrix(user_ids, [u \in Range(user_ids) |->
                                              GetUserPreferences(dirs, files, u)]))
    /\ calls' = [Others(calls, w) EXCEPT ![w].pc = "similarity"]
    /\ UNCHANGED <<user_ids, user_similarity_matrix, storeVars, ret, catalogVars>>

\* if len(self._user_ids) > 1: self._calculate_user_similarity(), on the fields
\* as they are now.
SimilarityStep(w) ==
    /\ calls[w].pc = "similarity"
    /\ user_similarity_matrix' =
           IF SeveralUsers(user_ids)
           THEN CalculateUserSimilarity(user_movie_matrix, user_similarity_matrix)
           ELSE user_similarity_matrix
    /\ calls' = [Others(calls, w) EXCEPT ![w].pc = "return"]
    /\ UNCHANGED <<user_ids, user_movie_matrix, storeVars, ret, catalogVars>>

\* update_model returns; get_recommendations ranks with the fields as they are
\* now and returns.
ReturnStep(w) ==
    /\ calls[w].pc = "return"
    /\ calls' = [Others(calls, w) EXCEPT ![w] = Idle]
    /\ UNCHANGED <<storeVars, recVars, catalogVars>>
    /\ LET c == calls[w]
           content_recs == IF Truthy(c.movie_title)
                           THEN GetContentBasedRecommendations(Val(c.movie_title), c.n * 2)
                           ELSE <<>>
           asked == Truthy(c.user_id) /\ Val(c.user_id) \in Range(user_ids)
       IN  IF c.op = "update_model"
           THEN ret' = [op |-> "update_model", again |-> ret.op = "update_model",
                        alone |-> c.alone]
           ELSE \E order \in (IF asked
                              THEN SimilarUserOrders(user_ids, user_similarity_matrix,
                                                     Val(c.user_id))
                              ELSE {<<>>}) :
                    LET collab_recs ==
                            IF asked
                            THEN GetCollaborativeRecommendations(dirs, files, user_ids,
                                     user_similarity_matrix, Val(c.user_id), c.n * 2, order)
                            ELSE <<>>
                    IN  \E ids \in HybridOrders(content_recs, collab_recs) :
                            ret' = [op |-> "get_recommendations",
                                    movie_title |-> c.movie_title, user_id |-> c.user_id,
                                    n |-> c.n, raised |-> FALSE, alone |-> c.alone,
                                    value |-> Combine(content_recs, collab_recs, c.n, ids)]

\* ----------------------------------------------------------- the periodic updater
\* The loop of model_updater.py lines 71-94: the fold of the aggregators, with no
\* factor for the watch duration.
RECURSIVE UpdaterFold(_, _)
UpdaterFold(preferences, interactions) ==
    IF interactions = <<>> THEN preferences
    ELSE LET e == Head(interactions)
             score == RMul(Weight(e.interaction_type), RatingFactor(e))
             next == IF Falsy(e.movie_id) THEN preferences
                     ELSE IF DictHas(preferences, Val(e.movie_id))
                     THEN DictPut(preferences, Val(e.movie_id),
                                  RDiv(RAdd(DictGet(preferences, Val(e.movie_id)), score), Whole(2)))
                     ELSE DictPut(preferences, Val(e.movie_id), score)
         IN  UpdaterFold(next, Tail(interactions))

\* ModelUpdater.update_model_with_user_data.  The value of the call is what it
\* saves under artifacts/: the user-movie matrix and the user similarity matrix,
\* or nothing.
UpdateModelWithUserData ==
    /\ ret' = [op |-> "updater",
               value |->
                   IF dirs = <<>> THEN None
                   ELSE LET user_movie_df ==
                                UserMovieMatrix(dirs,
                                    [u \in Range(dirs) |->
                                        UpdaterFold(<<>>, ReadInteractions(JsonFiles(files[u]), None))])
                        IN  IF Len(dirs) > 1 /\ ~ IsEmptyFrame(user_movie_df)
                            THEN Some([user_movie_matrix |-> user_movie_df,
                                       user_similarity_matrix |->
                                           Val(CalculateUserSimilarity(Some(user_movie_df), None))])
                            ELSE None]
    /\ UNCHANGED <<storeVars, recVars, calls, catalogVars>>

\* ------------------------------------------------------------ specifications
NoCall == [op |-> "none"]

InitRecommender ==
    /\ movies = Movies
    /\ content_similarity = ContentSimilarity
    /\ user_ids = <<>>
    /\ user_movie_matrix = None
    /\ user_similarity_matrix = None

\* The interaction store alone, from a fresh installation.
InitStore ==
    /\ dirs = <<>>
    /\ files = EmptyFiles
    /\ InitRecommender
    /\ ret = NoCall
    /\ calls = NoCalls

\* Half a second into FirstSecond, and the start of the next second.
StoreTimestamps == {FirstSecond * TicksPerSecond + 1, (FirstSecond + 1) * TicksPerSecond}
StoreInputs == {in \in EventInputs : in.interaction_type \in {"view", "watch"}}

RecordStore == Record(StoreInputs, StoreTimestamps, IoOutcomes)
ListStore == List(Limits, TypeFilters)
NextStore == RecordStore \/ ListStore

SpecStore == InitStore /\ [][NextStore]_vars

\* A store in which the first user already recorded DefaultLimit events, and the
\* calls that follow with default arguments.
InitBulk ==
    /\ dirs = <<UserNames[1]>>
    /\ files = BulkFiles
    /\ InitRecommender
    /\ ret = NoCall
    /\ calls = NoCalls

BulkInputs == {in \in EventInputs : in.interaction_type = "watch"}
RecordBulk == Record(BulkInputs, StoreTimestamps, {"ok", "open_fails"})
ListBulk == List({DefaultLimit}, {None})
NextBulk == RecordBulk \/ ListBulk

SpecBulk == InitBulk /\ [][NextBulk]_vars

\* The aggregators alone, on every store of one user that holds up to MaxEvents
\* events, in any listing order.
AggMovieIds == {None, Some(0), Some(1), Some(2)}
AggShapes ==
    { [interaction_type |-> "view",      rating |-> None,    watch_duration |-> None],
      [interaction_type |-> "click",     rating |-> None,    watch_duration |-> None],
      [interaction_type |-> "rate",      rating |-> Some(5), watch_duration |-> None],
      [interaction_type |-> "watch",     rating |-> None,    watch_duration |-> Some(7200)],
      [interaction_type |-> "watch",     rating |-> None,    watch_duration |-> Some(10800)],
      [interaction_type |-> "recommend", rating |-> Some(2), watch_duration |-> Some(1800)],
      [interaction_type |-> "share",     rating |-> None,    watch_duration |-> None] }
AggInputs == {[movie_id |-> m] @@ sh : m \in AggMovieIds, sh \in AggShapes}

Injective(f) == \A i, j \in DOMAIN f : f[i] = f[j] => i = j

\* The directories of UserNames[1] after n record calls in n different seconds.
AggDirectories(n) ==
    { [i \in 1..n |-> EventFile(Interaction(UserNames[1], ins[i], second[i] * TicksPerSecond))] :
        ins \in [1..n -> AggInputs], second \in {f \in [1..n -> 1..n] : Injective(f)} }

\* The directories of UserNames[1] after MaxEvents + 1 record calls for movie 1
\* in as many seconds, the files listed in any order.
RepeatDirectories ==
    LET n == MaxEvents + 1
        shapes == {sh \in AggShapes : sh.interaction_type \in {"view", "click", "rate"}}
    IN  { [i \in 1..n |-> EventFile(Interaction(UserNames[1], [movie_id |-> Some(1)] @@ sh[i],
                                                second[i] * TicksPerSecond))] :
            sh \in [1..n -> shapes], second \in {f \in [1..n -> 1..n] : Injective(f)} }

InitAgg ==
    /\ dirs \in {<<UserNames[1]>>, <<UserNames[1], UserNames[2]>>}
    /\ \/ \E n \in 0..MaxEvents : \E directory \in AggDirectories(n) :
             files = [EmptyFiles EXCEPT ![UserNames[1]] = directory]
       \/ \E directory \in RepeatDirectories :
             files = [EmptyFiles EXCEPT ![UserNames[1]] = directory]
    /\ InitRecommender
    /\ ret = NoCall
    /\ calls = NoCalls

\* UserInteractionTracker.get_user_movie_preferences(user_id)
TrackerPreferences ==
    /\ \E user_id \in Users :
          ret' = [op |-> "tracker_preferences", user_id |-> user_id,
                  value |-> GetUserMoviePreferences(dirs, files, user_id)]
    /\ UNCHANGED <<storeVars, recVars, calls, catalogVars>>

\* HybridRecommender._get_user_preferences(user_id)
HybridPreferences ==
    /\ \E user_id \in Users :
          ret' = [op |-> "hybrid_preferences", user_id |-> user_id,
                  value |-> GetUserPreferences(dirs, files, user_id)]
    /\ UNCHANGED <<storeVars, recVars, calls, catalogVars>>

NextAgg == TrackerPreferences \/ HybridPreferences \/ UpdateModelWithUserData

SpecAgg == InitAgg /\ [][NextAgg]_vars

\* The store and the recommender together, from a fresh installation: the
\* recommender is constructed on the empty store.  Two record calls of a user in
\* the same second write the same file.
CoreTimestamps == {FirstSecond * TicksPerSecond, FirstSecond * TicksPerSecond + 1}
CoreInputs == {in \in EventInputs : in.interaction_type \in {"view", "rate"}}

Init ==
    /\ dirs = <<>>
    /\ files = EmptyFiles
    /\ InitRecommender
    /\ ret = NoCall
    /\ calls = NoCalls

CoreOutcomes == IoOutcomes \ {"makedirs_fails"}
RecordCore == Record(CoreInputs, CoreTimestamps, CoreOutcomes)
ListCore == List({DefaultLimit}, {None})
Titles == {None, Some("Alpha")}
UserArguments == {None} \cup {Some(u) : u \in Users}
Counts == 1..MaxCount
GetRecommendationsCore == GetRecommendations(Titles, UserArguments, Counts)
Next ==
    \/ RecordCore
    \/ ListCore
    \/ TrackerPreferences
    \/ UpdateModel
    \/ GetRecommendationsCore

Spec == Init /\ [][Next]_vars

\* Concurrent writers on an empty store, one call each, their steps interleaved
\* in every way.
WriterTimestamps == {FirstSecond * TicksPerSecond}
InitWriters ==
    /\ dirs = <<>>
    /\ files = EmptyFiles
    /\ InitRecommender
    /\ ret = NoCall
    /\ calls = NoCalls

CallWriters == \E w \in Writers, user_id \in Users, in \in CoreInputs, timestamp \in WriterTimestamps :
                   Call(w, user_id, in, timestamp)
MakeDirsWriters == \E w \in Writers : MakeDirsStep(w)
OpenWriters == \E w \in Writers : OpenStep(w)
WriteWriters == \E w \in Writers : WriteStep(w)
NextWriters ==
    \/ CallWriters
    \/ MakeDirsWriters
    \/ OpenWriters
    \/ WriteWriters

SpecWriters == InitWriters /\ [][NextWriters]_vars

\* The rankers alone.  The store does not change: it is one of RankStores, in
\* which every user has recorded one of a few histories, and the catalog is the
\* one above; or the store is empty and the catalog is one of Catalogs.
RankUsers == {UserNames[i] : i \in 1..MaxRankUsers}

\* The files of a user after view or click events on the given movies, one a second.
History(user_id, events) ==
    [i \in DOMAIN events |->
        EventFile(Interaction(user_id,
                              [movie_id |-> Some(events[i][1]), interaction_type |-> events[i][2],
                               rating |-> None, watch_duration |-> None],
                              i * TicksPerSecond))]

\* Movie 5 is in no catalog.
Histories ==
    { <<>>,
      << <<1, "view">> >>,
      << <<2, "view">> >>,
      << <<1, "view">>, <<2, "click">> >>,
      << <<2, "click">>, <<5, "view">> >>,
      << <<1, "view">>, <<5, "view">> >> }

RankListings ==
    { <<UserNames[1]>>, <<UserNames[1], UserNames[2]>> }
        \cup {o \in [1..MaxRankUsers -> RankUsers] : Injective(o) /\ o[MaxRankUsers] # UserNames[1]}

RankStores ==
    { [dirs |-> ds, files |-> [u \in RankUsers |-> IF u \in Range(ds) THEN History(u, h[u]) ELSE <<>>]] :
        ds \in RankListings, h \in [RankUsers -> Histories] }

\* Catalogs of the three movies above: the row labels are the positions, or those
\* left when the second of four rows was dropped without re-indexing
\* (model_trainer.py line 135); each movie is as similar to itself as can be, and
\* any two movies are similar to any of three degrees.
SimilarityValues == {Rat(1, 4), Rat(1, 2), Whole(1)}
IndexLabels == { <<0, 1, 2>>, <<0, 2, 3>> }
Catalogs ==
    { [movies |-> [i \in DOMAIN Movies |-> [Movies[i] EXCEPT !.index = labels[i]]],
       content_similarity |->
           [i \in DOMAIN Movies |->
               [j \in DOMAIN Movies |-> IF i = j THEN Whole(1) ELSE off[<<i, j>>]]]] :
        labels \in IndexLabels,
        off \in [{c \in (DOMAIN Movies) \X (DOMAIN Movies) : c[1] # c[2]} -> SimilarityValues] }

InitRank ==
    /\ \/ /\ \E store \in RankStores : dirs = store.dirs /\ files = store.files
          /\ movies = Movies
          /\ content_similarity = ContentSimilarity
       \/ /\ dirs = <<>>
          /\ files = [u \in RankUsers |-> <<>>]
          /\ \E catalog \in Catalogs :
                movies = catalog.movies /\ content_similarity = catalog.content_similarity
    /\ user_ids = <<>>
    /\ user_movie_matrix = None
    /\ user_similarity_matrix = None
    /\ ret = NoCall
    /\ calls = NoCalls

RankTitles == {Movies[i].title : i \in DOMAIN Movies} \cup {"Zulu"}
RankUserIds == RankUsers \cup {"ghost"}
NextRank ==
    \/ UpdateModel
    \/ ContentRecommendations(RankTitles, 1..MaxTopN)
    \/ CollaborativeRecommendations(RankUserIds, 1..MaxTopN)

SpecRank == InitRank /\ [][NextRank]_vars

\* The merge of get_recommendations alone (lines 292-332), once, on lists the two
\* rankers may have returned: up to MaxMergeLen movies of the catalog, no movie
\* twice, each with one of a few scores.
MergeScores == {Rat(9, 10), Rat(4, 10), Rat(8, 10), Rat(6, 10)}
MergeLists ==
    LET items == {Recommendation(Movies[i].movie_id, Movies[i].title, Term(score, 1)) :
                     i \in DOMAIN Movies, score \in MergeScores}
    IN  UNION {{recs \in [1..len -> items] :
                   \A i, j \in 1..len : i # j => recs[i].id # recs[j].id} : len \in 0..MaxMergeLen}

\* The two lists and n of a merge that is about to be made.
InitMerge ==
    /\ dirs = <<>>
    /\ files = EmptyFiles
    /\ InitRecommender
    /\ calls = NoCalls
    /\ \E content_recs \in MergeLists, collab_recs \in MergeLists, n \in 1..MaxMergeN :
          ret = [op |-> "merging", content_recs |-> content_recs, collab_recs |-> collab_recs,
                 n |-> n]

Merge ==
    /\ ret.op = "merging"
    /\ \E ids \in HybridOrders(ret.content_recs, ret.collab_recs) :
          ret' = [op |-> "merge", content_recs |-> ret.content_recs,
                  collab_recs |-> ret.collab_recs, n |-> ret.n,
                  value |-> Combine(ret.content_recs, ret.collab_recs, ret.n, ids)]
    /\ UNCHANGED <<storeVars, recVars, calls, catalogVars>>

SpecMerge == InitMerge /\ [][Merge]_vars

\* A third user beside the two who record.  Its directory is there from the
\* start, without an event file, as a record call that failed at open leaves it;
\* the recommender is constructed on that store.
DriftInputs == {in \in CoreInputs : in.interaction_type = "view"}
InitDrift ==
    /\ dirs = <<UserNames[MaxUsers + 1]>>
    /\ files = [u \in Users \cup {UserNames[MaxUsers + 1]} |-> <<>>]
    /\ movies = Movies
    /\ content_similarity = ContentSimilarity
    /\ user_ids = dirs
    /\ user_movie_matrix = Some(UserMovieMatrix(dirs, [u \in Range(dirs) |-> <<>>]))
    /\ user_similarity_matrix = None
    /\ ret = NoCall
    /\ calls = NoCalls

NextDrift ==
    \/ Record(DriftInputs, {FirstSecond * TicksPerSecond}, {"ok", "open_fails", "write_fails"})
    \/ UpdateModel
    \/ GetRecommendations({None}, UserArguments, Counts)

SpecDrift == InitDrift /\ [][NextDrift]_vars

\* The same store with read faults: files that cannot be parsed and listings that
\* raise.
NextFaults ==
    \/ Record(DriftInputs, {FirstSecond * TicksPerSecond, (FirstSecond + 1) * TicksPerSecond},
              {"ok", "write_fails"})
    \/ GetRecommendations({None}, {Some(UserNames[1])}, {1})
    \/ GetRecommendationsListingFails({None}, {Some(UserNames[1])}, {1})

SpecFaults == InitDrift /\ [][NextFaults]_vars

\* Threads of one worker serving get_recommendations and update_model on the one
\* recommender while users record, from an empty store on.
RecordThreads == Record(CoreInputs, {FirstSecond * TicksPerSecond}, {"ok"})
RequestThreads ==
    \E w \in Writers, op \in {"get_recommendations", "update_model"} :
        Request(w, op, None, Some(UserNames[1]), 1)
AssignThreads == \E w \in Writers : AssignStep(w)
BuildThreads == \E w \in Writers : BuildStep(w)
SimilarityThreads == \E w \in Writers : SimilarityStep(w)
ReturnThreads == \E w \in Writers : ReturnStep(w)
NextThreads ==
    \/ RecordThreads
    \/ RequestThreads
    \/ AssignThreads
    \/ BuildThreads
    \/ SimilarityThreads
    \/ ReturnThreads

SpecThreads == InitWriters /\ [][NextThreads]_vars

\* ================================================================== claims
\* The event a successful record call is expected to have stored, stated from the
\* call's arguments alone.
ExpectedEvent(call) ==
    [user_id |-> call.user_id,
     movie_id |-> call.in.movie_id,
     interaction_type |-> call.in.interaction_type,
     timestamp |-> call.timestamp,
     rating |-> IF call.in.rating = None THEN None
                ELSE IF Val(call.in.rating) < 1 THEN Some(1)
                ELSE IF Val(call.in.rating) > 5 THEN Some(5)
                ELSE call.in.rating,
     watch_duration |-> IF call.in.watch_duration = None THEN None
                        ELSE IF Val(call.in.watch_duration) < 0 THEN Some(0)
                        ELSE call.in.watch_duration]

RecordedTrue == ret.op = "record" /\ ret.value = Some(TRUE)

\* C1 as stated: after record returns true, list(user_id), with its default limit,
\* contains the event, its rating clamped into [1, 5] and its duration to >= 0.
C1_RecordThenListContains ==
    RecordedTrue =>
        ExpectedEvent(ret) \in Range(GetUserInteractions(dirs, files, ret.user_id, DefaultLimit, None))

\* C1 (amended): after record returns true, list(user_id, limit) contains the
\* clamped event for every limit that is at least the number of event files of the
\* user; list(user_id) itself does whenever the user has at most DefaultLimit files.
C1_RecordThenListContainsWithinLimit ==
    RecordedTrue =>
        LET n == Len(files[UserDir(ret.user_id)])
        IN  \A limit \in {n, n + 1, DefaultLimit} :
                limit >= n =>
                    ExpectedEvent(ret) \in
                        Range(GetUserInteractions(dirs, files, ret.user_id, limit, None))

\* A successful record of an event whose rating and duration both had to be
\* clamped, for a user who holds more files than the default limit.
C1_Witness ==
    /\ RecordedTrue
    /\ Val(ret.in.rating) < 1
    /\ Val(ret.in.watch_duration) < 0
    /\ Len(files[UserDir(ret.user_id)]) > DefaultLimit

\* The complete events the store holds, each with the name of its file.
StoredEvents(fls) == {f \in UNION {Range(fls[d]) : d \in DOMAIN fls} : f.valid}

C3_RecordNeverRaises ==
    ret.op = "record" =>
        /\ ~ ret.raised
        /\ ret.io # "ok" => ret.value = Some(FALSE)

\* C4: list returns the events newest first (non-increasing timestamps), and of
\* more than limit events the limit newest.
C4_ListNewestFirst ==
    (ret.op = "list" /\ ret.types = None) =>
        LET v == ret.value
            stored == {f.data : f \in {g \in Range(files[UserDir(ret.user_id)]) : g.valid}}
        IN  /\ \A i, j \in DOMAIN v : i < j => v[i].timestamp >= v[j].timestamp
            /\ \A e \in stored : e \notin Range(v) =>
                  \A i \in DOMAIN v : v[i].timestamp >= e.timestamp

\* C5: list(user_id, limit, types) returns only events of the requested types, at
\* most limit of them, and exactly min(limit, number of stored events that match).
C5_ListFilteredCount ==
    (ret.op = "list" /\ IsSome(ret.types)) =>
        LET v == ret.value
            fs == files[UserDir(ret.user_id)]
            matching == {i \in DOMAIN fs :
                            fs[i].valid /\ fs[i].data.interaction_type \in Val(ret.types)}
        IN  /\ \A i \in DOMAIN v : v[i].interaction_type \in Val(ret.types)
            /\ Len(v) <= ret.limit
            /\ Len(v) = Min(ret.limit, Cardinality(matching))

\* The events an aggregator call went through, in the order it went through them:
\* the tracker's in list order, the recommender's in directory-listing order.
AggregatedEvents ==
    IF ret.op = "tracker_preferences"
    THEN GetUserInteractions(dirs, files, ret.user_id, PrefLimit, None)
    ELSE ReadInteractions(JsonFiles(files[UserDir(ret.user_id)]), None)

Aggregated == ret.op \in {"tracker_preferences", "hybrid_preferences"}

\* The score of one event as C7 gives it.
ClaimedWeight(t) ==
    IF t = "view" THEN <<1, 1>> ELSE IF t = "click" THEN <<2, 1>>
    ELSE IF t = "rate" THEN <<5, 1>> ELSE IF t = "watch" THEN <<3, 1>>
    ELSE IF t = "recommend" THEN <<1, 2>> ELSE <<1, 1>>
ClaimedScore(e) ==
    LET w == ClaimedWeight(e.interaction_type)
        r == IF IsSome(e.rating) THEN <<2 * Val(e.rating), 5>> ELSE <<1, 1>>
        d == IF IsSome(e.watch_duration)
             THEN (IF Val(e.watch_duration) >= 7200 THEN <<2, 1>>
                   ELSE <<7200 + Val(e.watch_duration), 7200>>)
             ELSE <<1, 1>>
    IN  Rat(w[1] * r[1] * d[1], w[2] * r[2] * d[2])

\* The left fold of C7, as a function from the movies of the events to scores.
RECURSIVE ClaimedFold(_, _)
ClaimedFold(acc, es) ==
    IF es = <<>> THEN acc
    ELSE LET e == Head(es)
             m == Val(e.movie_id)
             next == IF e.movie_id = None THEN acc
                     ELSE IF m \in DOMAIN acc
                     THEN [acc EXCEPT ![m] = Rat(acc[m][1] * ClaimedScore(e)[2] + ClaimedScore(e)[1] * acc[m][2],
                                                 2 * acc[m][2] * ClaimedScore(e)[2])]
                     ELSE [k \in DOMAIN acc \cup {m} |-> IF k = m THEN ClaimedScore(e) ELSE acc[k]]
         IN  ClaimedFold(next, Tail(es))

DictAsFunction(d) == [k \in DictKeys(d) |-> DictGet(d, k)]

\* C6: when the writers in flight record for different users, every call that
\* returned true has its event stored complete, and no step of any writer changes
\* or removes an event that was stored.
C6_DifferentUsersNeverConflict ==
    [][(\A v, w \in Writers :
           (v # w /\ calls'[v].pc # "idle" /\ calls'[w].pc # "idle")
               => calls'[v].user_id # calls'[w].user_id)
       => /\ \A w \in Writers :
                (calls'[w].pc = "done" /\ calls'[w].value = Some(TRUE))
                    => \E f \in StoredEvents(files') : f.data = ExpectedEvent(calls'[w])
          /\ StoredEvents(files) \subseteq StoredEvents(files')]_vars

\* Every writer has returned true from a call for a user of its own, all in the
\* same second.
C6_Witness ==
    /\ \A w \in Writers : calls[w].pc = "done" /\ calls[w].value = Some(TRUE)
    /\ \A v, w \in Writers : v # w => calls[v].user_id # calls[w].user_id
    /\ \A w \in Writers : \E f \in StoredEvents(files) : f.data = ExpectedEvent(calls[w])

\* C7: aggregate returns the left fold over the events in sequence order: an
\* event scores weight x rating/2.5 x (1 + min(duration/3600, 2)/2), the first
\* event of a movie sets the movie's score, a later one replaces it by (old + new)/2.
C7_AggregateIsLeftFold ==
    Aggregated => DictAsFunction(ret.value) = ClaimedFold(<<>>, AggregatedEvents)

\* C8: aggregate skips exactly the events without a movie_id: the movies of the
\* PreferenceVector are the movie_ids (any integer) the events carry, and an empty
\* event list yields an empty PreferenceVector.
C8_AggregateSkipsOnlyMissingMovie ==
    Aggregated =>
        DictKeys(ret.value) =
            {Val(AggregatedEvents[i].movie_id) :
                i \in {j \in DOMAIN AggregatedEvents : IsSome(AggregatedEvents[j].movie_id)}}

\* What holds of the code: the fold of C7 over the events whose movie_id is truthy.
AggregateIsLeftFoldOverTruthy ==
    Aggregated =>
        DictAsFunction(ret.value) =
            ClaimedFold(<<>>, SelectSeq(AggregatedEvents, LAMBDA e : ~ Falsy(e.movie_id)))

\* The users that have at least one stored interaction.
UsersWithEvents == {u \in Users : \E f \in StoredEvents(files) : f.data.user_id = u}

Rebuilt == ret.op \in {"update_model", "get_recommendations"}

\* C9: after every rebuild the matrix has exactly one row per user with at least
\* one stored interaction and none for any other user, one column per movie of
\* some user's preference vector, and in each cell the user's score for the movie,
\* or 0 when the user has none.
C9_MatrixRowsAreUsersWithEvents ==
    Rebuilt =>
        LET index == IF user_movie_matrix = None THEN <<>> ELSE Val(user_movie_matrix).index
        IN  /\ Range(index) = UsersWithEvents
            /\ Len(index) = Cardinality(UsersWithEvents)
            /\ IsSome(user_movie_matrix) =>
                  LET matrix == Val(user_movie_matrix)
                  IN  /\ matrix.columns =
                             UNION {DictKeys(GetUserPreferences(dirs, files, u)) :
                                       u \in UsersWithEvents}
                      /\ \A u \in Range(index), m \in matrix.columns :
                             matrix.row[u][m] =
                                 IF DictHas(GetUserPreferences(dirs, files, u), m)
                                 THEN DictGet(GetUserPreferences(dirs, files, u), m)
                                 ELSE Whole(0)

ContentCall == ret.op = "content"
CollaborativeCall == ret.op = "collaborative"
KnownTitle(movie_title) == \E i \in DOMAIN movies : movies[i].title = movie_title
InSimilarityMatrix(user_id) ==
    IsSome(user_similarity_matrix) /\ user_id \in Range(Val(user_similarity_matrix).index)

\* C11: a call of the content ranker with a title no catalog movie has, and a
\* call of the collaborative ranker for a user who is not in the user similarity
\* matrix, return the empty sequence and do not raise.
C11_NotFoundIsEmpty ==
    /\ (ContentCall /\ ~ KnownTitle(ret.movie_title)) => (~ ret.raised /\ ret.value = <<>>)
    /\ (CollaborativeCall /\ ~ InSimilarityMatrix(ret.user_id)) =>
            (~ ret.raised /\ ret.value = <<>>)

\* The collaborative ranker was asked for a user the matrix of two or more users
\* does not have.
C11_Witness ==
    /\ CollaborativeCall
    /\ IsSome(user_similarity_matrix)
    /\ ret.user_id \notin Range(Val(user_similarity_matrix).index)
    /\ ret.value = <<>>

\* The position in the catalog of the first movie of that title, and of the
\* movie of that id.
PositionOfTitle(movie_title) ==
    CHOOSE i \in DOMAIN movies :
        /\ movies[i].title = movie_title
        /\ \A j \in DOMAIN movies : movies[j].title = movie_title => i <= j
PositionOfId(movie_id) ==
    CHOOSE i \in DOMAIN movies :
        /\ movies[i].movie_id = movie_id
        /\ \A j \in DOMAIN movies : movies[j].movie_id = movie_id => i <= j

\* C12: whatever the content similarity matrix, the output of the content ranker
\* for a movie of the catalog does not contain that movie.
C12_ContentExcludesSelf ==
    (ContentCall /\ KnownTitle(ret.movie_title)) =>
        movies[PositionOfTitle(ret.movie_title)].movie_id \notin RecommendedIds(ret.value)

\* The row labels of the catalog are the positions.
PositionalLabels == \A i \in DOMAIN movies : movies[i].index = i - 1

\* The output of the content ranker is at most n items, by falling value of the
\* row of the movie and for equal values by rising column, each with the value of
\* its column as its score.
ContentOrderedTopN ==
    LET row == content_similarity[PositionOfTitle(ret.movie_title)]
        column(k) == PositionOfId(ret.value[k].id)
    IN  /\ Len(ret.value) <= ret.n
        /\ \A k \in DOMAIN ret.value :
              /\ ret.value[k].id \in {movies[i].movie_id : i \in DOMAIN movies}
              /\ ret.value[k].similarity_score = Term(row[column(k)], 1)
        /\ \A k, l \in DOMAIN ret.value :
              k < l => \/ RLess(row[column(l)], row[column(k)])
                       \/ row[column(l)] = row[column(k)] /\ column(k) < column(l)

\* C13: for a movie of the catalog the content ranker returns at most top_n
\* items by non-increasing similarity, equal similarities by ascending column,
\* and the score of an item is the value of its column in the row of the movie.
C13_ContentOrderedTopN ==
    (ContentCall /\ KnownTitle(ret.movie_title)) => ContentOrderedTopN

\* The same for the catalogs whose row labels are the positions.
ContentOrderedTopNWherePositional ==
    (ContentCall /\ KnownTitle(ret.movie_title) /\ PositionalLabels) => ContentOrderedTopN

\* The preference vector of a user in the store, and the movies it has.
PreferenceVector(user_id) == GetUserPreferences(dirs, files, user_id)
Interacted(user_id) == DictKeys(PreferenceVector(user_id))

\* The selected neighbours: the users of the sorted column of the user but the
\* first, MaxNeighbors at most.
Neighbors == Range(SubSeq(ret.order, 2, Min(MaxNeighbors + 1, Len(ret.order))))

RECURSIVE TotalOver(_, _, _)
TotalOver(neighbors, user_id, movie_id) ==
    IF neighbors = {} THEN Zero
    ELSE LET v == CHOOSE u \in neighbors : TRUE
             prefs == PreferenceVector(v)
             share == IF DictHas(prefs, movie_id)
                      THEN Scale(DictGet(prefs, movie_id),
                                 Val(user_similarity_matrix).cell[v][user_id])
                      ELSE Zero
         IN  RealAdd(share, TotalOver(neighbors \ {v}, user_id, movie_id))
Total(user_id, movie_id) == TotalOver(Neighbors, user_id, movie_id)

\* The movies a neighbour has a score for and the user has not interacted with.
Candidates(user_id) ==
    UNION {Interacted(v) : v \in Neighbors} \ Interacted(user_id)

\* The output is the top n candidates by falling total, each with its total.
CollaborativeTopN ==
    LET candidates == Candidates(ret.user_id)
        total(movie_id) == Total(ret.user_id, movie_id)
    IN  /\ Len(ret.value) = Min(ret.n, Cardinality(candidates))
        /\ \A k \in DOMAIN ret.value :
              /\ ret.value[k].id \in candidates
              /\ ret.value[k].similarity_score = total(ret.value[k].id)
        /\ \A k, l \in DOMAIN ret.value :
              k < l => /\ ret.value[k].id # ret.value[l].id
                       /\ ~ RealLess(ret.value[k].similarity_score, ret.value[l].similarity_score)
        /\ \A movie_id \in candidates \ RecommendedIds(ret.value) :
              \A k \in DOMAIN ret.value :
                  ~ RealLess(ret.value[k].similarity_score, total(movie_id))

CatalogIds == {movies[i].movie_id : i \in DOMAIN movies}

\* C15: for a user of the matrix the collaborative ranker returns the top_n
\* candidate movies by accumulated total in non-increasing order, the total of a
\* movie being the sum over the neighbours of similarity times preference score,
\* and the score of each item is that total; totals of zero are not left out.
C15_CollaborativeTopN ==
    (CollaborativeCall /\ InSimilarityMatrix(ret.user_id)) => CollaborativeTopN

\* The same where the catalog has every candidate.
CollaborativeTopNWhereCatalogued ==
    (CollaborativeCall /\ InSimilarityMatrix(ret.user_id)
        /\ Candidates(ret.user_id) \subseteq CatalogIds) => CollaborativeTopN

\* ----------------------------------------------------------------- the merge
MergeCall == ret.op = "merge"

\* C16: when exactly one of the two lists is empty, the merge returns the first n
\* items of the other list, in its order and with its scores.
C16_OneSideEmptyReturnsOther ==
    (MergeCall /\ (ret.content_recs = <<>>) # (ret.collab_recs = <<>>)) =>
        LET other == IF ret.content_recs = <<>> THEN ret.collab_recs ELSE ret.content_recs
        IN  /\ Len(ret.value) = Min(ret.n, Len(other))
            /\ \A k \in DOMAIN ret.value : ret.value[k] = other[k]

\* The collaborative side was empty and the content side longer than n.
C16_Witness ==
    /\ MergeCall
    /\ ret.collab_recs = <<>>
    /\ Len(ret.content_recs) > ret.n
    /\ ret.value = <<ret.content_recs[1]>>

\* The score a side gives a movie, 0 when the side does not have it.
SideScore(recs, movie_id) ==
    IF \E i \in DOMAIN recs : recs[i].id = movie_id
    THEN (CHOOSE rec \in Range(recs) : rec.id = movie_id).similarity_score
    ELSE Zero
HybridScore(movie_id) ==
    RealAdd(Scale(Rat(7, 10), SideScore(ret.content_recs, movie_id)),
            Scale(Rat(3, 10), SideScore(ret.collab_recs, movie_id)))

\* content {A: 0.9, B: 0.4} and collab {B: 0.8, C: 0.6}
ExampleContent ==
    <<Recommendation(1, "Alpha", Term(Rat(9, 10), 1)), Recommendation(2, "Bravo", Term(Rat(4, 10), 1))>>
ExampleCollab ==
    <<Recommendation(2, "Bravo", Term(Rat(8, 10), 1)), Recommendation(3, "Charlie", Term(Rat(6, 10), 1))>>

\* C17: when both lists are non-empty, the merge returns the top n of the union
\* of their movies by non-increasing hybrid score, 0.7 times the content score
\* plus 0.3 times the collaborative score, a side without the movie counting 0;
\* content {A: 0.9, B: 0.4} and collab {B: 0.8, C: 0.6} give A 0.63, B 0.52 and
\* C 0.18 in that order.
C17_MergeByHybridScore ==
    (MergeCall /\ ret.content_recs # <<>> /\ ret.collab_recs # <<>>) =>
        LET union == RecommendedIds(ret.content_recs) \cup RecommendedIds(ret.collab_recs)
        IN  /\ Len(ret.value) = Min(ret.n, Cardinality(union))
            /\ \A k \in DOMAIN ret.value :
                  /\ ret.value[k].id \in union
                  /\ ret.value[k].similarity_score = HybridScore(ret.value[k].id)
            /\ \A k, l \in DOMAIN ret.value :
                  k < l => /\ ret.value[k].id # ret.value[l].id
                           /\ ~ RealLess(ret.value[k].similarity_score,
                                         ret.value[l].similarity_score)
            /\ \A movie_id \in union \ RecommendedIds(ret.value) :
                  \A k \in DOMAIN ret.value :
                      ~ RealLess(ret.value[k].similarity_score, HybridScore(movie_id))
            /\ (ret.content_recs = ExampleContent /\ ret.collab_recs = ExampleCollab
                    /\ ret.n = 3) =>
                  [k \in DOMAIN ret.value |-> <<ret.value[k].id, ret.value[k].similarity_score>>]
                      = << <<1, Term(Rat(63, 100), 1)>>, <<2, Term(Rat(52, 100), 1)>>,
                           <<3, Term(Rat(18, 100), 1)>> >>

\* The merge of the example.
C17_Witness ==
    /\ MergeCall
    /\ ret.content_recs = ExampleContent
    /\ ret.collab_recs = ExampleCollab
    /\ ret.n = 3
    /\ Len(ret.value) = 3

\* ----------------------------------------------------------- get_recommendations
GetRecommendationsCall == ret.op = "get_recommendations"

\* C18: get_recommendations with neither a movie title nor a user id fails; it
\* does not return an empty list as a result.
C18_NeitherArgumentIsError ==
    (GetRecommendationsCall /\ ~ Truthy(ret.movie_title) /\ ~ Truthy(ret.user_id)) => ret.raised

\* What the store holds now: the preference vector of each listed user, the
\* matrix of these vectors and the cosines of its rows.
StoredPreferences == [u \in Range(dirs) |-> GetUserPreferences(dirs, files, u)]
StoredMatrix == UserMovieMatrix(dirs, StoredPreferences)
StoredSimilarity ==
    [index |-> dirs,
     cell |-> [u \in Range(dirs) |->
                 [v \in Range(dirs) |-> Cosine(StoredMatrix.row[u], StoredMatrix.row[v])]]]

\* C19: get_recommendations rebuilds before it ranks: after the call the known
\* users are the users of the store, the matrix is that of their preference
\* vectors, and the similarity matrix, where there is one, holds the cosines of
\* the rows of that matrix, never those of an earlier store.
C19_RanksWithFreshIndex ==
    GetRecommendationsCall =>
        /\ user_ids = dirs
        /\ dirs # <<>> => user_movie_matrix = Some(StoredMatrix)
        /\ IsSome(user_similarity_matrix) => Val(user_similarity_matrix) = StoredSimilarity

\* C20: an update_model that follows an update_model leaves the known users, the
\* user-movie matrix and the similarity matrix as the first left them, and no
\* update_model changes the interaction store.
C20_UpdateModelIdempotent ==
    [][/\ ret'.op = "update_model" => storeVars' = storeVars
       /\ (ret.op = "update_model" /\ ret'.op = "update_model") => recVars' = recVars]_vars

\* update_model was called twice in a row with two users in the store and a
\* similarity matrix built.
C20_Witness ==
    /\ ret.op = "update_model"
    /\ ret.again
    /\ Len(user_ids) > 1
    /\ IsSome(user_similarity_matrix)

\* ------------------------------------------------- the rankers, further claims
\* The other users of the similarity matrix.
OtherUsers(user_id) == Range(Val(user_similarity_matrix).index) \ {user_id}

\* C23: for a user of the similarity matrix the neighbours the collaborative
\* ranker uses are never the user itself: they are the other users of highest
\* similarity, MaxNeighbors at most, also when another user is as similar to the
\* user as the user is to itself and when the row of the user is all zeros.
C23_NeighborsExcludeTarget ==
    (CollaborativeCall /\ InSimilarityMatrix(ret.user_id) /\ ret.user_id \in Range(user_ids)) =>
        /\ ret.user_id \notin Neighbors
        /\ Cardinality(Neighbors) = Min(MaxNeighbors, Cardinality(OtherUsers(ret.user_id)))
        /\ \A v \in Neighbors, w \in OtherUsers(ret.user_id) \ Neighbors :
              ~ RealLess(Val(user_similarity_matrix).cell[v][ret.user_id],
                         Val(user_similarity_matrix).cell[w][ret.user_id])

\* The same for the users to whom nobody else is as similar as they are to
\* themselves.
NeighborsExcludeTargetWhereSelfIsFirst ==
    (CollaborativeCall /\ InSimilarityMatrix(ret.user_id) /\ ret.user_id \in Range(user_ids)
        /\ \A w \in OtherUsers(ret.user_id) :
              RealLess(Val(user_similarity_matrix).cell[w][ret.user_id],
                       Val(user_similarity_matrix).cell[ret.user_id][ret.user_id])) =>
        /\ ret.user_id \notin Neighbors
        /\ Neighbors = OtherUsers(ret.user_id)

\* C26: for the movie at position p of the catalog the content ranker reads row
\* p of the similarity matrix, so it returns as many items as the row has other
\* columns, n at most, and every item is the movie at the position of its column
\* with the value of that column in row p as score, whatever the row labels of
\* the catalog.
C26_ContentReadsRowOfPosition ==
    (ContentCall /\ KnownTitle(ret.movie_title)) =>
        LET row == content_similarity[PositionOfTitle(ret.movie_title)]
        IN  /\ Len(ret.value) = Min(ret.n, Len(row) - 1)
            /\ \A k \in DOMAIN ret.value :
                  \E column \in DOMAIN row :
                      /\ ret.value[k].id = movies[column].movie_id
                      /\ ret.value[k].title = movies[column].title
                      /\ ret.value[k].similarity_score = Term(row[column], 1)

\* The same for the catalogs whose row labels are the positions.
ContentReadsRowOfPositionWherePositional ==
    PositionalLabels => C26_ContentReadsRowOfPosition

\* C30: for a user of the similarity matrix the collaborative ranker returns as
\* many items as there are candidates with a catalog entry, n at most, each a
\* movie of the catalog.
C30_CollaborativeCountsCatalogued ==
    (CollaborativeCall /\ InSimilarityMatrix(ret.user_id) /\ ret.user_id \in Range(user_ids)) =>
        /\ Len(ret.value) = Min(ret.n, Cardinality(Candidates(ret.user_id) \cap CatalogIds))
        /\ RecommendedIds(ret.value) \subseteq CatalogIds

\* ------------------------------------------------------ the merge, further claims
\* The movies of both lists as the merge meets them: those of the content list
\* in its order, then those only the collaborative list has, in its order.
UnionOrder ==
    [k \in DOMAIN ret.content_recs |-> ret.content_recs[k].id]
        \o SelectSeq([k \in DOMAIN ret.collab_recs |-> ret.collab_recs[k].id],
                     LAMBDA movie_id : movie_id \notin RecommendedIds(ret.content_recs))

\* C24: movies of equal hybrid score come in union order, those of the content
\* list first, so the merged list is a function of the two lists, the weights
\* and n: it is the first n of the union sorted stably by falling hybrid score.
C24_MergeTiesInUnionOrder ==
    (MergeCall /\ ret.content_recs # <<>> /\ ret.collab_recs # <<>>) =>
        [k \in DOMAIN ret.value |-> ret.value[k].id] =
            LET sorted == SortedByScore([k \in DOMAIN UnionOrder |->
                              [key |-> UnionOrder[k], score |-> HybridScore(UnionOrder[k])]])
            IN  [k \in 1..Min(ret.n, Len(sorted)) |-> sorted[k].key]

\* The same for the merges in which no two movies have the same hybrid score.
MergeOrderWhereNoTies ==
    (\A a, b \in Range(UnionOrder) : a # b => HybridScore(a) # HybridScore(b)) =>
        C24_MergeTiesInUnionOrder

\* ---------------------------------------------------------- the two aggregators
\* C27: whatever the store holds, the aggregator of the recommender returns for a
\* user the preference vector the aggregator of the store returns.
C27_AggregatorsAgree ==
    ret.op = "hybrid_preferences" =>
        DictAsFunction(ret.value) =
            DictAsFunction(GetUserMoviePreferences(dirs, files, ret.user_id))

\* The same for the users with at most two events.
AggregatorsAgreeUpToTwoEvents ==
    (\A u \in DOMAIN files : Len(files[u]) <= 2) => C27_AggregatorsAgree

\* C28: a record call that returns false leaves every stored event stored as it
\* was, the event of the same user and second whose file the call opened for
\* writing included.
C28_FailedRecordKeepsEvents ==
    [][(ret'.op = "record" /\ ~ ret'.raised /\ ret'.value = Some(FALSE)) =>
          StoredEvents(files) \subseteq StoredEvents(files')]_vars

\* The same for the calls that fail before the file is open.
FailedOpenKeepsEvents ==
    [][(ret'.op = "record" /\ ret'.io \in {"makedirs_fails", "open_fails"}) =>
          StoredEvents(files) \subseteq StoredEvents(files')]_vars

\* C29: the user-movie matrix and the user similarity matrix the periodic updater
\* saves are those the recommender builds from the same store, also when events
\* carry a watch_duration.
C29_UpdaterBuildsSameMatrices ==
    (ret.op = "updater" /\ IsSome(ret.value)) =>
        /\ Val(ret.value).user_movie_matrix = StoredMatrix
        /\ Val(ret.value).user_similarity_matrix = StoredSimilarity

\* The same for the stores in which no event carries a watch_duration.
UpdaterBuildsSameMatricesWithoutDuration ==
    (\A f \in StoredEvents(files) : f.data.watch_duration = None) =>
        C29_UpdaterBuildsSameMatrices

\* ------------------------------------------------------------ the index as a whole
\* C25: whenever there is a similarity matrix, it is over the users of the rows of
\* the user-movie matrix, in their order, and these are the known users.
C25_SimilarityAlignedWithMatrix ==
    IsSome(user_similarity_matrix) =>
        /\ IsSome(user_movie_matrix)
        /\ Val(user_similarity_matrix).index = Val(user_movie_matrix).index
        /\ DOMAIN Val(user_similarity_matrix).cell = Range(user_ids)
        /\ \A u \in Range(user_ids) : DOMAIN Val(user_similarity_matrix).cell[u] = Range(user_ids)
        /\ Val(user_movie_matrix).index = user_ids

\* The same while the user-movie matrix has a column.
SimilarityAlignedWhileMatrixNotEmpty ==
    (IsSome(user_movie_matrix) /\ ~ IsEmptyFrame(Val(user_movie_matrix))) =>
        C25_SimilarityAlignedWithMatrix

\* C22: no fault of reading the store escapes get_recommendations: the call
\* returns a list and does not raise, and the rebuild it made skipped the files
\* that cannot be read and aggregated the others.
C22_NoFaultEscapes ==
    GetRecommendationsCall =>
        /\ ~ ret.raised
        /\ dirs # <<>> => user_movie_matrix = Some(StoredMatrix)

\* A file that cannot be parsed is skipped and the others are aggregated: after
\* a call that returned, the matrix is that of the readable events.
CorruptFilesAreSkipped ==
    (GetRecommendationsCall /\ ~ ret.raised /\ dirs # <<>>) =>
        user_movie_matrix = Some(StoredMatrix)

\* The known users, the user-movie matrix and the similarity matrix are those of
\* one rebuild: none yet, or a matrix over the known users and, where a rebuild
\* computes one, the similarity matrix of that matrix.
FromOneRebuild ==
    \/ user_ids = <<>> /\ user_movie_matrix = None /\ user_similarity_matrix = None
    \/ /\ IsSome(user_movie_matrix)
       /\ Val(user_movie_matrix).index = user_ids
       /\ (SeveralUsers(user_ids) /\ ~ IsEmptyFrame(Val(user_movie_matrix))) =>
              user_similarity_matrix = CalculateUserSimilarity(user_movie_matrix, None)

\* The thread is about to rank for a request of get_recommendations.
Ranking(w) == calls[w].pc = "return" /\ calls[w].op = "get_recommendations"

\* C21: whatever the interleaving of the requests of the threads and of the
\* record calls, a request of get_recommendations ranks with known users, a
\* user-movie matrix and a similarity matrix that come from one rebuild.
C21_RequestRanksWithOneRebuild ==
    \A w \in Writers : Ranking(w) => FromOneRebuild

\* The same for a request during which no other thread took a step.
RequestAloneRanksWithOneRebuild ==
    \A w \in Writers : (Ranking(w) /\ calls[w].alone) => FromOneRebuild

====
